---- MODULE Spec2Model ----
(***************************************************************************)
(* State-machine model of the room-pairing and chunked-transfer relay of   *)
(* src/server.js (src/unnamed/part_000 is the same relay with a different  *)
(* port and layout).  One action per Socket.IO handler / stream callback;  *)
(* Node runs each of them to completion, so each is one atomic step.       *)
(***************************************************************************)
EXTENDS Integers, Sequences, FiniteSets, TLC

\* ---------------------------------------------------------------- universe
\* socket ids (socket.id): unique per connection, never reused
Conns == {"k1", "k2", "k3"}
\* the order in which the server hands them out to new connections
ConnOrder == <<"k1", "k2", "k3">>
\* room codes sent by clients in join-room
RoomIds == {"A", "B"}
\* files present in the uploads directory when the server starts
StoredFiles == {"big", "empty"}
\* the sockets that connect, and the receiverId values they name, when the
\* transfer orchestrator is explored: one sending socket, one peer id
Senders == {"k1"}
Receivers == {"k2"}
\* file ids a client may name in start-transfer ("ghost" was never uploaded)
FileIds == StoredFiles \cup {"ghost"}

\* JavaScript null / undefined / a deleted key
Null == "null"

\* bounds of the exploration
MaxJoins == 4
MaxStreams == 2

\* highWaterMark of the read stream, 64 KiB
ChunkSize == 64 * 1024

\* fs.statSync(filePath).size of the stored files
statSize(f) == IF f = "big" THEN ChunkSize + 34464 ELSE 0

\* ------------------------------------------------------------------- state
VARIABLES
  conn,             \* socket id -> "idle" | "connected" | "disconnected"
  rooms,            \* room code -> [sender, receiver, fileId], for the codes that are keys
  roomOrder,        \* the keys of rooms in insertion order (for .. in order)
  groups,           \* room code -> sockets in the Socket.IO broadcast group
  activeTransfers,  \* socket id -> [fileId, receiverId, sentBytes, totalBytes], same
  files,            \* file ids present in the uploads directory
  streams,          \* the read streams created so far, in creation order
  timers,           \* indices of streams whose setTimeout is pending
  crashed,          \* an exception escaped a handler (uncaught, process dies)
  out,              \* the events the last handler emitted, in order
  joinLog,          \* room code -> <<[conn, answer]>> since the room entry was created
  njoins            \* join-room events handled so far

vars == <<conn, rooms, roomOrder, groups, activeTransfers, files, streams,
          timers, crashed, out, joinLog, njoins>>

\* ------------------------------------------------------------------ events
\* one emitted event: name, destination (socket id), and its payload
\* (off is the file offset of a chunk: it stands for the chunk's bytes)
Ev(name, to, info, progress, len, off) ==
  [ev |-> name, to |-> to, info |-> info, progress |-> progress, len |-> len,
   off |-> off]

Plain(name, to) == Ev(name, to, "", -1, 0, -1)
Msg(name, to, m) == Ev(name, to, m, -1, 0, -1)

\* ------------------------------------------------------------------- rooms
EmptyRoom == [sender |-> Null, receiver |-> Null, fileId |-> Null]

\* obj[key] = value, and delete obj[key]
Put(obj, key, value) == [k \in DOMAIN obj \cup {key} |-> IF k = key THEN value ELSE obj[k]]
Delete(obj, keys) == [k \in DOMAIN obj \ keys |-> obj[k]]

InRoom(rs, r, c) == r \in DOMAIN rs /\ (rs[r].sender = c \/ rs[r].receiver = c)

\* for (roomId in rooms) { if (sender === id || receiver === id) { delete; break } }
FirstMatch(rs, order, c) ==
  LET hits == {i \in 1..Len(order) : InRoom(rs, order[i], c)}
  IN  IF hits = {} THEN {}
      ELSE {CHOOSE i \in hits : \A j \in hits : i <= j}

RoomsToDelete(rs, order, c) == {order[i] : i \in FirstMatch(rs, order, c)}

\* a teardown that only vacates the leaving connection's slots
RoomTeardownSlot(rs, order, c) ==
  LET hit == RoomsToDelete(rs, order, c)
  IN  [rooms |-> [r \in DOMAIN rs |->
                    IF r \in hit
                    THEN [sender |-> IF rs[r].sender = c THEN Null ELSE rs[r].sender,
                          receiver |-> IF rs[r].receiver = c THEN Null ELSE rs[r].receiver,
                          fileId |-> rs[r].fileId]
                    ELSE rs[r]],
       order |-> order]

RoomTeardown(rs, order, c) ==
  LET dead == RoomsToDelete(rs, order, c)
  IN  [rooms |-> Delete(rs, dead),
       order |-> SelectSeq(order, LAMBDA x : x \notin dead)]

\* if (activeTransfers[id]) { emit transfer-cancelled to its receiver; delete }
TransferTeardown(at, c) ==
  IF c \in DOMAIN at
  THEN [at |-> Delete(at, {c}),
        out |-> <<Plain("transfer-cancelled", at[c].receiverId)>>]
  ELSE [at |-> at, out |-> <<>>]

\* ----------------------------------------------------------------- actions
Init ==
  /\ conn = [c \in Conns |-> "idle"]
  /\ rooms = <<>>
  /\ roomOrder = <<>>
  /\ groups = [r \in RoomIds |-> {}]
  /\ activeTransfers = <<>>
  /\ files = StoredFiles
  /\ streams = <<>>
  /\ timers = {}
  /\ crashed = FALSE
  /\ out = <<>>
  /\ joinLog = [r \in RoomIds |-> <<>>]
  /\ njoins = 0

\* io.on('connection')
Connect(c) ==
  /\ ~crashed
  /\ conn[c] = "idle"
  /\ \E i \in DOMAIN ConnOrder :
       /\ ConnOrder[i] = c
       /\ \A j \in 1..(i - 1) : conn[ConnOrder[j]] # "idle"
  /\ conn' = [conn EXCEPT ![c] = "connected"]
  /\ out' = <<>>
  /\ UNCHANGED <<rooms, roomOrder, groups, activeTransfers, files, streams,
                 timers, crashed, joinLog, njoins>>

\* a role branch without the room-full case: a late joiner takes the receiver slot
JoinAnswerOverwrite(room) ==
  IF room.sender = Null THEN "sender" ELSE "receiver"

\* the role branch of join-room: which slot, if any, the caller takes
JoinAnswer(room) ==
  IF room.sender = Null THEN "sender"
  ELSE IF room.receiver = Null THEN "receiver"
  ELSE "room-full"

\* socket.on('join-room')
JoinRoom(c, r) ==
  /\ ~crashed
  /\ conn[c] = "connected"
  /\ njoins < MaxJoins
  /\ LET fresh == r \notin DOMAIN rooms
         room == IF fresh THEN EmptyRoom ELSE rooms[r]
         answer == JoinAnswer(room)
     IN  /\ roomOrder' = IF fresh THEN Append(roomOrder, r) ELSE roomOrder
         /\ rooms' = Put(rooms, r,
                        CASE answer = "sender" -> [room EXCEPT !.sender = c]
                          [] answer = "receiver" -> [room EXCEPT !.receiver = c]
                          [] OTHER -> room)
         /\ groups' = [groups EXCEPT ![r] =
                         IF answer = "room-full" THEN @ \ {c} ELSE @ \cup {c}]
         /\ out' = CASE answer = "sender" -> <<Msg("room-joined", c, "sender")>>
                     [] answer = "receiver" ->
                          <<Msg("room-joined", c, "receiver"),
                            Msg("user-joined", room.sender, c)>>
                     [] OTHER -> <<Plain("room-full", c)>>
         /\ joinLog' = [joinLog EXCEPT ![r] =
                          Append(@, [conn |-> c, answer |-> answer])]
  /\ njoins' = njoins + 1
  /\ UNCHANGED <<conn, activeTransfers, files, streams, timers, crashed>>

\* socket.on('disconnect')
Disconnect(c) ==
  /\ ~crashed
  /\ conn[c] = "connected"
  /\ LET tt == TransferTeardown(activeTransfers, c)
         rt == RoomTeardown(rooms, roomOrder, c)
     IN  /\ activeTransfers' = tt.at
         /\ out' = tt.out
         /\ rooms' = rt.rooms
         /\ roomOrder' = rt.order
         /\ joinLog' = [r \in RoomIds |->
                          IF r \in DOMAIN rt.rooms THEN joinLog[r] ELSE <<>>]
  /\ conn' = [conn EXCEPT ![c] = "disconnected"]
  /\ groups' = [r \in RoomIds |-> groups[r] \ {c}]
  /\ UNCHANGED <<files, streams, timers, crashed, njoins>>

\* ---------------------------------------------------------------- transfer
Min(a, b) == IF a <= b THEN a ELSE b

\* Math.round(x / size * 100) for integers x >= 0, size > 0 (halves round up)
RoundPercent(x, size) == (200 * x + size) \div (2 * size)

\* Math.min(100, Math.round((sentBytes / stats.size) * 100))
Progress(sentBytes, size) == Min(100, RoundPercent(sentBytes, size))

\* an existence check that always succeeds
FileExistsAlways(f) == TRUE

\* fs.existsSync(filePath)
FileExists(f) == f \in files

\* every chunk reported as a full buffer, also the short last one
ChunkLenFull(st) == ChunkSize

\* chunk.length of the next 'data' event of a stream
ChunkLen(st) == Min(ChunkSize, st.size - st.pos)

\* the stream has delivered every byte: its next event is 'end'
AtEof(st) == st.pos >= st.size

\* the stream can still emit 'data', 'end' or 'error'
Live(st) == st.state \in {"opening", "flowing"}

SetStream(i, st) == [streams EXCEPT ![i] = st]

\* activeTransfers[socket.id] = {fileId, receiverId, filePath, sentBytes: 0, totalBytes}
\* (filePath is uploadsDir/fileId, the same information as fileId)
NewTransfer(f, rcv) ==
  [fileId |-> f, receiverId |-> rcv, sentBytes |-> 0, totalBytes |-> statSize(f)]

\* the receiver is not told that a transfer starts
StartEventsNone(c, f, rcv) == <<>>

\* io.to(receiverId).emit('transfer-started', fileInfo)
StartEvents(c, f, rcv) == <<Ev("transfer-started", rcv, f, -1, statSize(f), -1)>>

\* the two emits of the 'data' handler around sentBytes += chunk.length:
\* file-chunk carries the progress before the increment, transfer-progress
\* the progress after it
DataEvents(st, sentBefore, n) ==
  <<Ev("file-chunk", st.receiverId, st.fileId, Progress(sentBefore, st.size), n, st.pos),
    Ev("transfer-progress", st.owner, "", Progress(sentBefore + n, st.size), 0, -1)>>

\* the two emits of the 'end' handler
EndEvents(st) ==
  <<Plain("transfer-complete", st.owner), Plain("transfer-complete", st.receiverId)>>

\* only the sender hears of the failure
ErrorEventsSenderOnly(st) ==
  <<Msg("transfer-error", st.owner, "Error reading file")>>

\* the two emits of the 'error' handler
ErrorEvents(st) ==
  <<Msg("transfer-error", st.owner, "Error reading file"),
    Msg("transfer-error", st.receiverId, "Error transferring file")>>

\* socket.on('start-transfer')
StartTransfer(c, f, rcv) ==
  /\ ~crashed
  /\ conn[c] = "connected"
  /\ IF ~FileExists(f)
     THEN /\ out' = <<Msg("transfer-error", c, "File not found on server")>>
          /\ UNCHANGED <<activeTransfers, streams>>
     ELSE /\ Len(streams) < MaxStreams
          /\ activeTransfers' = Put(activeTransfers, c, NewTransfer(f, rcv))
          /\ out' = StartEvents(c, f, rcv)
          /\ streams' = Append(streams,
                               [owner |-> c, receiverId |-> rcv, fileId |-> f,
                                size |-> statSize(f), pos |-> 0,
                                state |-> "opening",
                                evs |-> StartEvents(c, f, rcv)])
  /\ UNCHANGED <<conn, rooms, roomOrder, groups, files, timers, crashed,
                 joinLog, njoins>>

\* the stream's asynchronous open succeeds
StreamOpen(i) ==
  /\ ~crashed
  /\ streams[i].state = "opening"
  /\ FileExists(streams[i].fileId)
  /\ streams' = SetStream(i, [streams[i] EXCEPT !.state = "flowing"])
  /\ out' = <<>>
  /\ UNCHANGED <<conn, rooms, roomOrder, groups, activeTransfers, files,
                 timers, crashed, joinLog, njoins>>

\* readStream.on('data').  When activeTransfers[socket.id] is undefined the
\* payload expression throws a TypeError before anything is emitted; nothing
\* catches it, the process exits and only the uploads directory survives
StreamData(i) ==
  /\ ~crashed
  /\ streams[i].state = "flowing"
  /\ ~AtEof(streams[i])
  /\ LET st == streams[i]
     IN  IF st.owner \notin DOMAIN activeTransfers
         THEN /\ crashed' = TRUE
              /\ out' = <<>>
              /\ rooms' = <<>>
              /\ roomOrder' = <<>>
              /\ groups' = [r \in RoomIds |-> {}]
              /\ activeTransfers' = <<>>
              /\ streams' = <<>>
              /\ timers' = {}
              /\ joinLog' = [r \in RoomIds |-> <<>>]
         ELSE LET rec == activeTransfers[st.owner]
                  n == ChunkLen(st)
                  emitted == DataEvents(st, rec.sentBytes, n)
              IN  /\ activeTransfers' =
                       Put(activeTransfers, st.owner,
                           [rec EXCEPT !.sentBytes = rec.sentBytes + n])
                  /\ out' = emitted
                  /\ streams' = SetStream(i, [st EXCEPT !.pos = st.pos + n,
                                                        !.evs = @ \o emitted])
                  /\ UNCHANGED <<rooms, roomOrder, groups, timers, crashed, joinLog>>
  /\ UNCHANGED <<conn, files, njoins>>

\* readStream.on('end')
StreamEnd(i) ==
  /\ ~crashed
  /\ streams[i].state = "flowing"
  /\ AtEof(streams[i])
  /\ LET st == streams[i]
     IN  /\ out' = EndEvents(st)
         /\ streams' = SetStream(i, [st EXCEPT !.state = "ended",
                                               !.evs = @ \o EndEvents(st)])
  /\ timers' = timers \cup {i}
  /\ UNCHANGED <<conn, rooms, roomOrder, groups, activeTransfers, files,
                 crashed, joinLog, njoins>>

\* readStream.on('error'): the open fails (the file is gone) or a read fails
StreamError(i) ==
  /\ ~crashed
  /\ Live(streams[i])
  /\ LET st == streams[i]
     IN  /\ out' = ErrorEvents(st)
         /\ streams' = SetStream(i, [st EXCEPT !.state = "errored",
                                               !.evs = @ \o ErrorEvents(st)])
         /\ activeTransfers' = Delete(activeTransfers, {st.owner})
  /\ UNCHANGED <<conn, rooms, roomOrder, groups, files, timers, crashed,
                 joinLog, njoins>>

\* the setTimeout callback of 'end': if (existsSync) unlinkSync
DeleteTimer(i) ==
  /\ ~crashed
  /\ i \in timers
  /\ files' = files \ {streams[i].fileId}
  /\ timers' = timers \ {i}
  /\ out' = <<>>
  /\ UNCHANGED <<conn, rooms, roomOrder, groups, activeTransfers, streams,
                 crashed, joinLog, njoins>>

\* the handlers of the room table
NextRooms ==
  \/ \E c \in Conns : Connect(c)
  \/ \E c \in Conns, r \in RoomIds : JoinRoom(c, r)
  \/ \E c \in Conns : Disconnect(c)

\* the handlers and callbacks of the transfer orchestrator
NextTransfer ==
  \/ \E c \in Senders : Connect(c)
  \/ \E c \in Conns : Disconnect(c)
  \/ \E c \in Conns, f \in FileIds, rcv \in Receivers : StartTransfer(c, f, rcv)
  \/ \E i \in DOMAIN streams : StreamOpen(i)
  \/ \E i \in DOMAIN streams : StreamData(i)
  \/ \E i \in DOMAIN streams : StreamEnd(i)
  \/ \E i \in DOMAIN streams : StreamError(i)
  \/ \E i \in DOMAIN streams : DeleteTimer(i)

Next == NextRooms \/ NextTransfer

Spec == Init /\ [][Next]_vars

\* join-room and start-transfer never read each other's table: the room
\* table and the transfer registry are explored separately
SpecRooms == Init /\ [][NextRooms]_vars
SpecTransfer == Init /\ [][NextTransfer]_vars

\* ------------------------------------------------------------ room claims
\* C1: in every room entry, counted from the join that created it, the first
\* join-room is answered room-joined/sender, the second room-joined/receiver
\* and every later one room-full; the sender and receiver slots stay the
\* first and the second joiner (a rejected join changes neither), so only
\* one join ever obtains the sender role.
C1_JoinOrder ==
  \A r \in RoomIds :
    LET log == joinLog[r]
    IN  /\ \A i \in 1..Len(log) :
             log[i].answer = IF i = 1 THEN "sender"
                             ELSE IF i = 2 THEN "receiver" ELSE "room-full"
        /\ Cardinality({i \in 1..Len(log) : log[i].answer = "sender"}) <= 1
        /\ Len(log) >= 1 => (r \in DOMAIN rooms /\ rooms[r].sender = log[1].conn)
        /\ Len(log) = 1 => rooms[r].receiver = Null
        /\ Len(log) >= 2 => rooms[r].receiver = log[2].conn

\* three distinct sockets joined one code and the third was just turned away
C1_Witness ==
  \E r \in RoomIds :
    /\ Len(joinLog[r]) = 3
    /\ Cardinality({joinLog[r][i].conn : i \in 1..3}) = 3
    /\ out = <<Plain("room-full", joinLog[r][3].conn)>>

\* C2: a room never names the same connection in both slots.
C2_DistinctOccupants ==
  \A r \in DOMAIN rooms :
    (rooms[r].sender # Null /\ rooms[r].receiver # Null)
      => rooms[r].sender # rooms[r].receiver

\* C9: once a connection's disconnect handler has run, no room names it.
C9_NoRoomAfterDisconnect ==
  \A c \in Conns :
    conn[c] = "disconnected" => \A r \in DOMAIN rooms : ~InRoom(rooms, r, c)

\* C10: the disconnect teardown of a connection that is in no room and owns
\* no session changes neither table and emits nothing; so a second run of
\* the teardown, for a connection whose disconnect handler has already run,
\* changes nothing and emits nothing.
C10_TeardownIdempotent ==
  \A c \in Conns :
    LET t == TransferTeardown(activeTransfers, c)
        r == RoomTeardown(rooms, roomOrder, c)
        noop == /\ t.at = activeTransfers
                /\ t.out = <<>>
                /\ r.rooms = rooms
                /\ r.order = roomOrder
    IN  /\ ((\A x \in DOMAIN rooms : ~InRoom(rooms, x, c)) /\ c \notin DOMAIN activeTransfers)
             => noop
        /\ conn[c] = "disconnected" => noop

\* -------------------------------------------------------- transfer claims
RECURSIVE SumLen(_)
SumLen(seq) == IF seq = <<>> THEN 0 ELSE Head(seq).len + SumLen(Tail(seq))

\* the events of one transfer, by kind
Named(st, name) == SelectSeq(st.evs, LAMBDA e : e.ev = name)
Chunks(st) == Named(st, "file-chunk")
Progresses(st) == Named(st, "transfer-progress")
Completed(st) == Named(st, "transfer-complete") # <<>>

\* what the receiver of a transfer is sent about it
ToReceiver(st) ==
  SelectSeq(st.evs, LAMBDA e : /\ e.to = st.receiverId
                               /\ e.ev \in {"transfer-started", "file-chunk",
                                            "transfer-complete"})

NonDecreasing(seq) == \A k \in 1..(Len(seq) - 1) : seq[k].progress <= seq[k + 1].progress
InRange(seq) == \A k \in 1..Len(seq) : seq[k].progress \in 0..100

\* after transfer-started, before end-of-file
InProgress(st) == Live(st) /\ ~AtEof(st)

\* C3: a start-transfer naming a file that is not in the upload store emits
\* exactly one event, transfer-error "File not found on server" to the
\* caller, and changes neither the room table nor the registry nor the
\* streams: no session, no transfer-started, file-chunk or transfer-complete.
C3_MissingFile ==
  [][\A c \in Conns, f \in FileIds, rcv \in Receivers :
       (StartTransfer(c, f, rcv) /\ f \notin files)
         => /\ out' = <<Msg("transfer-error", c, "File not found on server")>>
            /\ UNCHANGED <<rooms, roomOrder, activeTransfers, streams, timers, files>>]_vars

\* the error was just sent while another session is registered
C3_Witness ==
  /\ \E c \in Conns : out = <<Msg("transfer-error", c, "File not found on server")>>
  /\ DOMAIN activeTransfers # {}

\* C4: once transfer-complete was emitted for a transfer, the lengths of the
\* file-chunk events sent to its receiver add up to the size read at start.
C4_ChunkSum ==
  \A i \in DOMAIN streams :
    Completed(streams[i])
      => /\ streams[i].size = statSize(streams[i].fileId)
         /\ \A k \in DOMAIN Chunks(streams[i]) :
              Chunks(streams[i])[k].to = streams[i].receiverId
         /\ SumLen(Chunks(streams[i])) = streams[i].size

\* a transfer of more than one chunk completed
C4_Witness ==
  \E i \in DOMAIN streams :
    Completed(streams[i]) /\ streams[i].size > ChunkSize /\ Len(Chunks(streams[i])) = 2

\* C5: a completed transfer's last file-chunk and last transfer-progress
\* both carry progress 100.
C5_FinalProgress ==
  \A i \in DOMAIN streams :
    Completed(streams[i])
      => LET cs == Chunks(streams[i])
             ps == Progresses(streams[i])
         IN  /\ cs # <<>> /\ cs[Len(cs)].progress = 100
             /\ ps # <<>> /\ ps[Len(ps)].progress = 100

\* C6: the progress values of a transfer's file-chunk events, and those of
\* its transfer-progress events, never decrease and lie in 0..100.
C6_ProgressMonotone ==
  \A i \in DOMAIN streams :
    /\ NonDecreasing(Chunks(streams[i])) /\ InRange(Chunks(streams[i]))
    /\ NonDecreasing(Progresses(streams[i])) /\ InRange(Progresses(streams[i]))

\* C7: when a sender disconnects with a transfer in progress, that
\* transfer's receiver is sent transfer-cancelled and the sender's session
\* is gone; and no stream of a disconnected sender emits a file-chunk.
C7_CancelOnDisconnect ==
  [][/\ \A c \in Conns :
          (conn[c] = "connected" /\ conn'[c] = "disconnected")
            => \A i \in DOMAIN streams :
                 (streams[i].owner = c /\ InProgress(streams[i]))
                   => /\ \E k \in DOMAIN out' :
                           out'[k] = Plain("transfer-cancelled", streams[i].receiverId)
                      /\ c \notin DOMAIN activeTransfers'
     /\ \A i \in DOMAIN streams \cap DOMAIN streams' :
          conn[streams[i].owner] = "disconnected"
            => Chunks(streams'[i]) = Chunks(streams[i])]_vars

\* C8: the receiver of a transfer is sent transfer-started first, then the
\* chunks in file order without gap or repetition (each chunk starts where
\* the chunks before it end), then, last, transfer-complete.
C8_ReceiverOrder ==
  \A i \in DOMAIN streams :
    LET R == ToReceiver(streams[i])
    IN  /\ Len(R) >= 1 /\ R[1].ev = "transfer-started"
        /\ \A k \in 2..Len(R) :
             \/ /\ R[k].ev = "file-chunk"
                /\ R[k].off = SumLen(SubSeq(R, 2, k - 1))
             \/ /\ R[k].ev = "transfer-complete"
                /\ k = Len(R)
                /\ SumLen(SubSeq(R, 2, k - 1)) = streams[i].size

\* the receiver got started, two chunks and complete
C8_Witness ==
  \E i \in DOMAIN streams :
    /\ Len(ToReceiver(streams[i])) = 4
    /\ ToReceiver(streams[i])[4].ev = "transfer-complete"

\* the streams an owner created, by index
StreamsOf(c) == {i \in DOMAIN streams : streams[i].owner = c}

\* C11: no handler ever fails with an uncaught error: every chunk read
\* finds the session record of its sender.
C11_NoUncaughtError == ~crashed

\* C12: a transfer that reached end-of-file has sent transfer-complete to
\* its sender and to its receiver and has a deletion scheduled; the file
\* stays in the upload store for as long as that deletion is pending and is
\* absent once it has run.
C12_CompleteThenDelete ==
  \A i \in DOMAIN streams :
    streams[i].state = "ended"
      => /\ Named(streams[i], "transfer-complete") = EndEvents(streams[i])
         /\ i \in timers => streams[i].fileId \in files
         /\ i \notin timers => streams[i].fileId \notin files

\* C13: every session of the registry has sentBytes <= totalBytes.
C13_SentWithinTotal ==
  \A c \in DOMAIN activeTransfers :
    activeTransfers[c].sentBytes <= activeTransfers[c].totalBytes

\* C14: once a sender's transfers have all reached end-of-file, the registry
\* holds no session for it and its disconnect sends no transfer-cancelled.
C14_SessionGoneAfterEnd ==
  \A c \in Conns :
    (StreamsOf(c) # {} /\ \A i \in StreamsOf(c) : streams[i].state = "ended")
      => /\ c \notin DOMAIN activeTransfers
         /\ TransferTeardown(activeTransfers, c).out = <<>>

\* C15: for every chunk, the progress in its file-chunk event is the
\* progress after the increment, the value its transfer-progress carries.
C15_SameProgress ==
  \A i \in DOMAIN streams :
    /\ Len(Chunks(streams[i])) = Len(Progresses(streams[i]))
    /\ \A k \in DOMAIN Chunks(streams[i]) :
         Chunks(streams[i])[k].progress = Progresses(streams[i])[k].progress

\* C16: the step in which a stream fails emits transfer-error "Error reading
\* file" to the sender and "Error transferring file" to the receiver and
\* nothing else, removes the sender's session, and schedules no deletion;
\* a failed transfer never has a transfer-complete nor a pending deletion.
C16_ReadError ==
  [][/\ \A i \in DOMAIN streams \cap DOMAIN streams' :
          (streams[i].state # "errored" /\ streams'[i].state = "errored")
            => /\ out' = <<Msg("transfer-error", streams[i].owner, "Error reading file"),
                           Msg("transfer-error", streams[i].receiverId,
                               "Error transferring file")>>
               /\ streams[i].owner \notin DOMAIN activeTransfers'
               /\ timers' = timers
               /\ files' = files
     /\ \A i \in DOMAIN streams' :
          streams'[i].state = "errored"
            => ~Completed(streams'[i]) /\ i \notin timers']_vars

\* a stream failed after its first chunk and took the session with it
C16_Witness ==
  \E i \in DOMAIN streams :
    /\ streams[i].state = "errored"
    /\ Len(Chunks(streams[i])) = 1
    /\ out = ErrorEvents(streams[i])
    /\ streams[i].owner \notin DOMAIN activeTransfers

\* C17: the disconnect of a connection that occupies exactly one room
\* removes that room entry whole and leaves the others alone, the room
\* teardown emits nothing of its own, and a join-room on a code that is
\* not in the table creates a fresh entry and is answered with role sender.
C17_WholeRoomRemoved ==
  [][/\ \A c \in Conns :
          (conn[c] = "connected" /\ conn'[c] = "disconnected")
            => \A r \in DOMAIN rooms :
                 (InRoom(rooms, r, c) /\ \A x \in DOMAIN rooms \ {r} : ~InRoom(rooms, x, c))
                   => /\ rooms' = Delete(rooms, {r})
                      /\ out' = TransferTeardown(activeTransfers, c).out
     /\ \A r \in RoomIds :
          (r \notin DOMAIN rooms /\ r \in DOMAIN rooms')
            => \E c \in Conns :
                 /\ out' = <<Msg("room-joined", c, "sender")>>
                 /\ rooms'[r] = [EmptyRoom EXCEPT !.sender = c]]_vars

\* a room that two joins had filled was removed by a disconnect, and the next
\* join on the same code, the third join overall, was answered sender
C17_Witness ==
  \E r \in RoomIds, c \in Conns, d \in Conns :
    /\ conn[c] = "disconnected" /\ conn[d] = "connected"
    /\ njoins = 3
    /\ joinLog[r] = <<[conn |-> d, answer |-> "sender"]>>
    /\ out = <<Msg("room-joined", d, "sender")>>
    /\ \A x \in RoomIds \ {r} : groups[x] = {} /\ x \notin DOMAIN rooms

\* C18: every room of the table has its sender slot filled, so a join to an
\* existing room is never answered with role sender.
C18_SenderFilled ==
  \A r \in DOMAIN rooms :
    rooms[r].sender # Null /\ JoinAnswer(rooms[r]) # "sender"

\* a room with both slots filled survives the disconnect of a third socket
C18_Witness ==
  \E r \in DOMAIN rooms, c \in Conns :
    /\ conn[c] = "disconnected"
    /\ rooms[r].receiver # Null
    /\ rooms[r].sender # rooms[r].receiver

\* C19: whenever a session is created, the caller is the sender of a room
\* whose receiver is the session's receiverId.
C19_PairedPeers ==
  [][Len(streams') > Len(streams)
       => LET st == streams'[Len(streams')]
          IN  \E r \in DOMAIN rooms :
                rooms[r].sender = st.owner /\ rooms[r].receiver = st.receiverId]_vars

\* C20: at every chunk read of a transfer its file is in the upload store.
C20_FileThereWhileRead ==
  [][\A i \in DOMAIN streams \cap DOMAIN streams' :
       streams'[i].pos > streams[i].pos => streams[i].fileId \in files]_vars

====
